---- MODULE Spec2Model ----
(***************************************************************************)
(* The interactive Cortex workflow of demo.py: class Demo and the main     *)
(* sequence that drives it.  Every blocking point of the script (a prompt, *)
(* a remote command and its response, a wait for a warning) is one action. *)
(* The Cortex client is external: a response is any success payload of a   *)
(* small set or the error payload {code, message}; a warning is any code.  *)
(* An uncaught Python exception moves pc to "crashed" and names the fault. *)
(***************************************************************************)
EXTENDS Integers, Sequences, FiniteSets, TLC

VARIABLES
    pc,                \* position in the script
    fault,             \* the uncaught exception, "none" while running
    attrs,             \* names of the instance attributes that exist
    token,             \* self.token
    current_username,  \* self.current_username
    user_info,         \* self.user_info
    all_subjects,      \* self.all_subjects
    subject_index,     \* self.subject_index
    current_subject,   \* self.current_subject
    subject_name,      \* self.subject_name
    all_records,       \* self.all_records
    record_index,      \* self.record_index
    current_record,    \* self.current_record
    headset_id,        \* self.headset_id
    session_id,        \* self.session_id
    streams,           \* self.streams
    stream_index,      \* local stream_index of select_streams
    i,                 \* loop variable of the translation loop
    warning,           \* local warning of find_headset, 0 outside it
    headsets,          \* local result of the headset query, empty outside find_headset
    picked,            \* history: the valid indices picked, without repeats, in order
    calls,             \* names of the remote commands issued so far, in order
    lastCall,          \* the most recent remote command with its parameters
    console,           \* the last line written to the console
    printed,           \* every kind of line written so far
    prompted           \* every prompt shown so far

ident   == <<token, current_username, user_info>>
subj    == <<all_subjects, subject_index, current_subject, subject_name>>
rec     == <<all_records, record_index, current_record>>
dev     == <<headset_id, session_id, warning, headsets>>
sel     == <<streams, stream_index, i, picked>>
remote  == <<calls, lastCall>>
term    == <<console, printed, prompted>>
vars    == <<pc, fault, attrs, ident, subj, rec, dev, sel, remote, term>>

\* ---------------------------------------------------------------- bounds
MaxSubjects == 2    \* longest subject list a query returns
MaxRecords  == 2    \* longest record list a query returns
MaxHeadsets == 2    \* longest headset list a query returns
MaxPicks    == 1    \* valid picks collected per run of the whole workflow

\* ------------------------------------------------------- values and inputs
None     == "None"
NoneVal  == <<>>                         \* None where a mapping is expected
ClientId == ""
ClientSecret == ""

Usernames    == {"alice", "Alice"}      \* what the operator may type
ServerIdentity == "alice"                \* the identity logged in on the server
Tokens       == {"tokA"}
SubjectNames == {"ann", "bob"}
RecordIds    == {"r1", "r2"}
HeadsetIds   == {"h1", "h2"}
SessionIds   == {"sess1"}
Texts        == {"", "x"}                \* a free-text line: empty or not
WarningCodes == {100, 101, 102, 113, 142, 103}

ErrorPayload == [code |-> 5, message |-> "no access"]

\* Sequences over S of length lo..hi without repetition.
DistinctSeqs(S, lo, hi) ==
    UNION {{s \in [1..n -> S] : \A a, b \in 1..n : a # b => s[a] # s[b]} : n \in lo..hi}

\* result['k'] raises KeyError unless the mapping has the key.
HasKey(d, k) == k \in DOMAIN d

\* Variant: the response is never taken for an error.
NeverError(result) == FALSE

\* The try/except KeyError blocks: both prints succeed, the step returns.
IsError(result) == HasKey(result, "code") /\ HasKey(result, "message")

\* A Python list as a payload; the other payloads are mappings.
PyList(seq) == [list |-> seq]
IsList(result) == HasKey(result, "list")

\* seq[idx] of a Python list: negative indices count from the end.
InRange(seq, idx) == -Len(seq) <= idx /\ idx < Len(seq)
PyIndex(seq, idx) == IF idx >= 0 THEN seq[idx + 1] ELSE seq[Len(seq) + idx + 1]

Last(seq) == seq[Len(seq)]

\* ------------------------------------------------------------- primitives
Call(cmd, args) ==
    /\ calls' = Append(calls, cmd)
    /\ lastCall' = [cmd |-> cmd, args |-> args]

Say(line) ==
    /\ console' = line
    /\ printed' = printed \cup {line}

SayAll(lines, last) ==
    /\ console' = last
    /\ printed' = printed \cup lines

Ask(prompt) == prompted' = prompted \cup {prompt}

Raise(kind) ==
    /\ pc' = "crashed"
    /\ fault' = kind

Goto(label) ==
    /\ pc' = label
    /\ fault' = fault

\* ------------------------------------------------------------------- Init
\* A Demo about to run authorize_user while holding the token held.
Constructed(held) ==
    /\ pc = "authorize_user"
    /\ fault = "none"
    /\ attrs = {"client_id", "client_secret", "debug", "token", "cortex"}
    /\ token = held
    /\ current_username = NoneVal
    /\ user_info = NoneVal
    /\ all_subjects = NoneVal
    /\ subject_index = 0
    /\ current_subject = NoneVal
    /\ subject_name = NoneVal
    /\ all_records = NoneVal
    /\ record_index = 0
    /\ current_record = NoneVal
    /\ headset_id = NoneVal
    /\ session_id = NoneVal
    /\ streams = <<>>
    /\ stream_index = 0
    /\ i = 0
    /\ warning = 0
    /\ headsets = <<>>
    /\ picked = <<>>
    /\ calls = <<>>
    /\ lastCall = [cmd |-> "none", args |-> NoneVal]
    /\ console = "none"
    /\ printed = {}
    /\ prompted = {}

\* lines 5-11 and 232: the Demo as constructed holds no token
Init == Constructed(None)

\* --------------------------------------------------------- authorize_user
LoginResponses ==
    {PyList(<<[username |-> u, lastLoginTime |-> "t0"]>>) : u \in {ServerIdentity}}
        \cup {PyList(<<>>), ErrorPayload}

\* line 14: the identifier prompt
AuthorizePrompt ==
    /\ pc = "authorize_user"
    /\ \E name \in Usernames : current_username' = name
    /\ attrs' = attrs \cup {"current_username"}
    /\ Ask("emotiv_id")
    /\ Goto("get_user_login")
    /\ UNCHANGED <<token, user_info, subj, rec, dev, sel, remote, console, printed>>

\* lines 16-24: the login identity and its comparison with the identifier
AuthorizeGetUserLogin ==
    /\ pc = "get_user_login"
    /\ Call("get_user_login", NoneVal)
    /\ \E result \in LoginResponses :
        IF ~IsList(result) THEN
            Raise("KeyError") /\ UNCHANGED <<console, printed>>
        ELSE IF ~InRange(result.list, 0) THEN
            Raise("IndexError") /\ UNCHANGED <<console, printed>>
        ELSE IF current_username = PyIndex(result.list, 0).username THEN
            SayAll({"correct_id", "last_login"}, "last_login") /\ Goto("request_access")
        ELSE
            Say("incorrect_id") /\ Goto("display_user_info")
    /\ UNCHANGED <<attrs, ident, subj, rec, dev, sel, prompted>>

AccessResponses == {[accessGranted |-> g] : g \in BOOLEAN} \cup {ErrorPayload}

\* lines 27-30: the access request
AuthorizeRequestAccess ==
    /\ pc = "request_access"
    /\ Call("request_access", [client_id |-> ClientId, client_secret |-> ClientSecret])
    /\ \E result \in AccessResponses :
        IF ~HasKey(result, "accessGranted") THEN
            Raise("KeyError") /\ UNCHANGED <<console, printed>>
        ELSE IF result.accessGranted = FALSE THEN
            Say("approve_app") /\ Goto("display_user_info")
        ELSE
            Goto("token") /\ UNCHANGED <<console, printed>>
    /\ UNCHANGED <<attrs, ident, subj, rec, dev, sel, prompted>>

TokenResponses == {[cortexToken |-> t] : t \in Tokens} \cup {ErrorPayload}

\* The token a token response leaves in self.token (lines 34 and 37).
StoredToken(result) == result.cortexToken

\* Variant: a token is issued whether or not one is held.
AuthorizeTokenAlwaysIssues ==
    /\ pc = "token"
    /\ Call("authorize", [client_id |-> ClientId, client_secret |-> ClientSecret])
    /\ \E result \in TokenResponses :
        IF ~HasKey(result, "cortexToken") THEN
            Raise("KeyError") /\ UNCHANGED token
        ELSE
            token' = StoredToken(result) /\ Goto("display_user_info")
    /\ UNCHANGED <<attrs, current_username, user_info, subj, rec, dev, sel, term>>

\* lines 32-37: a token is issued when none is held, regenerated otherwise
AuthorizeToken ==
    /\ pc = "token"
    /\ IF token = None
       THEN Call("authorize", [client_id |-> ClientId, client_secret |-> ClientSecret])
       ELSE Call("generate_new_token",
                 [cortex_token |-> token, client_id |-> ClientId,
                  client_secret |-> ClientSecret])
    /\ \E result \in TokenResponses :
        IF ~HasKey(result, "cortexToken") THEN
            Raise("KeyError") /\ UNCHANGED token
        ELSE
            token' = StoredToken(result) /\ Goto("display_user_info")
    /\ UNCHANGED <<attrs, current_username, user_info, subj, rec, dev, sel, term>>

\* ------------------------------------------------------ display_user_info
UserInfoResponses ==
    {[username |-> u, firstName |-> "A", lastName |-> "B",
      licenseAgreement |-> [accepted |-> TRUE]] : u \in {ServerIdentity}}
        \cup {ErrorPayload}

\* lines 40-46
DisplayUserInfo ==
    /\ pc = "display_user_info"
    /\ Call("get_user_information", [cortex_token |-> token])
    /\ \E result \in UserInfoResponses :
        /\ user_info' = result
        /\ IF ~HasKey(result, "username") THEN
               Say("user_info_header") /\ Raise("KeyError")
           ELSE
               SayAll({"user_info_header", "user_info"}, "user_info")
                   /\ Goto("show_subjects")
    /\ attrs' = attrs \cup {"user_info"}
    /\ UNCHANGED <<token, current_username, subj, rec, dev, sel, prompted>>

\* ---------------------------------------------------------- show_subjects
Subject(name) == [subjectName |-> name]

\* A subject is identified by its name: a listing names no subject twice.
SubjectLists == DistinctSeqs({Subject(s) : s \in SubjectNames}, 0, MaxSubjects)

SubjectResponses ==
    {[count |-> Len(l), subjects |-> l] : l \in SubjectLists} \cup {ErrorPayload}

\* What the console reads at an index prompt: an integer, or text int() rejects.
IndexInputs(n) == -(n + 1) .. n

\* lines 50-61: the subject query, its error shape, the listing
ShowSubjectsQuery ==
    /\ pc = "show_subjects"
    /\ Call("query_subjects",
            [cortex_token |-> token, query |-> [sex |-> "M"],
             order_by |-> <<[subjectName |-> "DESC"]>>])
    /\ \E result \in SubjectResponses :
        /\ all_subjects' = result
        /\ IF IsError(result) THEN
               SayAll({"code", "message"}, "message") /\ Goto("subject_branch")
           ELSE
               Say("subjects_list") /\ Goto("subject_prompt")
    /\ attrs' = attrs \cup {"all_subjects"}
    /\ UNCHANGED <<ident, subject_index, current_subject, subject_name, rec, dev, sel,
                   prompted>>

\* lines 63-64: the index prompt
ShowSubjectsPrompt ==
    /\ pc = "subject_prompt"
    /\ Ask("subject_index")
    /\ \/ \E index \in IndexInputs(MaxSubjects) :
            /\ subject_index' = index
            /\ current_subject' = NoneVal
            /\ attrs' = attrs \cup {"subject_index", "current_subject"}
            /\ Goto("subject_branch")
       \/ /\ Raise("ValueError")
          /\ UNCHANGED <<attrs, subject_index, current_subject>>
    /\ UNCHANGED <<ident, all_subjects, subject_name, rec, dev, sel, remote,
                   console, printed>>

\* Variant: a new subject is created only when nothing was listed.
MainSubjectBranchByCount ==
    /\ pc = "subject_branch"
    /\ IF "subject_index" \notin attrs THEN Raise("AttributeError")
       ELSE IF subject_index = -1 /\ all_subjects.count = 0 THEN Goto("create_subject")
       ELSE Goto("select_subject")
    /\ UNCHANGED <<attrs, ident, subj, rec, dev, sel, remote, term>>

\* lines 238-241 of the main sequence
MainSubjectBranch ==
    /\ pc = "subject_branch"
    /\ IF "subject_index" \notin attrs THEN Raise("AttributeError")
       ELSE IF subject_index = -1 THEN Goto("create_subject")
       ELSE Goto("select_subject")
    /\ UNCHANGED <<attrs, ident, subj, rec, dev, sel, remote, term>>

\* --------------------------------------------------------- create_subject
SubjectFields == {"subject_name", "dateOfBirth", "sex", "countryCode", "state", "city"}

\* lines 67-95: the parameters of the create command, one per non-empty input
CreateSubjectParams(inputs) ==
    [k \in {"api_call", "cortex_token"} \cup {f \in SubjectFields : inputs[f] # ""} |->
        IF k = "api_call" THEN "create_subject"
        ELSE IF k = "cortex_token" THEN token
        ELSE inputs[k]]

CreateSubjectResponses == {Subject(s) : s \in SubjectNames} \cup {ErrorPayload}

\* lines 66-99
CreateSubject ==
    /\ pc = "create_subject"
    /\ \E inputs \in [SubjectFields -> Texts] :
        /\ subject_name' = inputs["subject_name"]
        /\ Call("create_subject", CreateSubjectParams(inputs))
    /\ \E result \in CreateSubjectResponses : current_subject' = result
    /\ attrs' = attrs \cup {"subject_name", "current_subject"}
    /\ prompted' = prompted \cup SubjectFields
    /\ SayAll({"enter_info", "not_required", "subject_created"}, "subject_created")
    /\ Goto("display_subject_info")
    /\ UNCHANGED <<ident, all_subjects, subject_index, rec, dev, sel>>

\* --------------------------------------------------------- select_subject
\* Variant: the chosen index is ignored.
FirstListedSubject(listed, index) == PyIndex(listed, 0)

\* The entry of the listed subjects that line 102 reads.
SelectedSubject(listed, index) == PyIndex(listed, index)

\* lines 101-102
SelectSubject ==
    /\ pc = "select_subject"
    /\ IF InRange(all_subjects.subjects, subject_index) THEN
           /\ current_subject' = SelectedSubject(all_subjects.subjects, subject_index)
           /\ Goto("display_subject_info")
       ELSE
           /\ Raise("IndexError")
           /\ UNCHANGED current_subject
    /\ UNCHANGED <<attrs, ident, all_subjects, subject_index, subject_name, rec, dev,
                   sel, remote, term>>

\* lines 104-107
DisplaySubjectInfo ==
    /\ pc = "display_subject_info"
    /\ Say("subject_info")
    /\ Goto("show_records")
    /\ UNCHANGED <<attrs, ident, subj, rec, dev, sel, remote, prompted>>

\* ----------------------------------------------------------- show_records
Record(id) == [uuid |-> id, title |-> id]

\* A record is identified by its uuid: a listing names no record twice.
RecordLists == DistinctSeqs({Record(r) : r \in RecordIds}, 0, MaxRecords)

RecordResponses ==
    {[count |-> Len(l), records |-> l] : l \in RecordLists} \cup {ErrorPayload}

\* lines 110-121: the record query for the current subject's name
ShowRecordsQuery ==
    /\ pc = "show_records"
    /\ IF ~HasKey(current_subject, "subjectName") THEN
           /\ Raise("KeyError")
           /\ UNCHANGED <<attrs, all_records, remote, console, printed>>
       ELSE
           /\ Call("query_records",
                   [cortex_token |-> token,
                    query |-> [keyword |-> current_subject.subjectName],
                    order_by |-> <<[startDatetime |-> "DESC"]>>])
           /\ attrs' = attrs \cup {"all_records"}
           /\ \E result \in RecordResponses :
               /\ all_records' = result
               /\ IF IsError(result) THEN
                      SayAll({"code", "message"}, "message") /\ Goto("record_branch")
                  ELSE
                      Say("records_list") /\ Goto("record_prompt")
    /\ UNCHANGED <<ident, subj, record_index, current_record, dev, sel, prompted>>

\* lines 123-124: the index prompt
ShowRecordsPrompt ==
    /\ pc = "record_prompt"
    /\ Ask("record_index")
    /\ \/ \E index \in IndexInputs(MaxRecords) :
            /\ record_index' = index
            /\ current_record' = NoneVal
            /\ attrs' = attrs \cup {"record_index", "current_record"}
            /\ Goto("record_branch")
       \/ /\ Raise("ValueError")
          /\ UNCHANGED <<attrs, record_index, current_record>>
    /\ UNCHANGED <<ident, subj, all_records, dev, sel, remote, console, printed>>

\* lines 246-249 of the main sequence
MainRecordBranch ==
    /\ pc = "record_branch"
    /\ IF "record_index" \notin attrs THEN Raise("AttributeError")
       ELSE IF record_index = -1 THEN Goto("find_headset")
       ELSE Goto("display_record_info")
    /\ UNCHANGED <<attrs, ident, subj, rec, dev, sel, remote, term>>

\* ---------------------------------------------------- display_record_info
RecordInfoResponses ==
    {PyList(<<[uuid |-> r, title |-> r, markers |-> "none"]>>) : r \in RecordIds}
        \cup {PyList(<<>>), ErrorPayload}

\* lines 159-166
DisplayRecordInfo ==
    /\ pc = "display_record_info"
    /\ IF ~InRange(all_records.records, record_index) THEN
           /\ Raise("IndexError")
           /\ UNCHANGED <<attrs, current_record, remote, console, printed>>
       ELSE
           /\ Call("get_record_infos",
                   [cortex_token |-> token,
                    record_ids |-> <<PyIndex(all_records.records, record_index).uuid>>])
           /\ attrs' = attrs \cup {"record_ids"}
           /\ \E result \in RecordInfoResponses :
               IF ~IsList(result) THEN
                   Raise("KeyError") /\ UNCHANGED <<current_record, console, printed>>
               ELSE IF ~InRange(result.list, 0) THEN
                   Raise("IndexError") /\ UNCHANGED <<current_record, console, printed>>
               ELSE
                   /\ current_record' = PyIndex(result.list, 0)
                   /\ Say("record_info")
                   /\ Goto("close")
    /\ UNCHANGED <<ident, subj, all_records, record_index, dev, sel, prompted>>

\* ----------------------------------------------------------- find_headset
\* line 169-170: the device refresh; its result is only printed
FindHeadsetRefresh ==
    /\ pc = "find_headset"
    /\ Call("control_device", [command |-> "refresh"])
    /\ Say("refresh_result")
    /\ Goto("scan_warning")
    /\ UNCHANGED <<attrs, ident, subj, rec, dev, sel, prompted>>

\* self.cortex.await_warning(): the call returns the next warning the service
\* sends, and only then; it takes no bound on the wait.
AwaitWarning == \E code \in WarningCodes : warning' = code

\* lines 171-172: the wait ends when a warning arrives, whatever its code
AwaitScanWarning ==
    /\ pc = "scan_warning"
    /\ AwaitWarning
    /\ Say("warning")
    /\ Goto("query_headsets")
    /\ UNCHANGED <<attrs, ident, subj, rec, headset_id, session_id, headsets, sel, remote,
                   prompted>>

HeadsetLists == UNION {[1..n -> {[id |-> h] : h \in HeadsetIds}] : n \in 0..MaxHeadsets}

HeadsetResponses == {PyList(l) : l \in HeadsetLists} \cup {ErrorPayload}

\* Variant: the last headset found is kept.
LastHeadset(found) == PyIndex(found, -1)

\* The headset line 177 keeps.
ChosenHeadset(found) == PyIndex(found, 0)

\* lines 173-178: the headset query; the first headset found is kept
FindHeadsetQuery ==
    /\ pc = "query_headsets"
    /\ Call("query_headsets", NoneVal)
    /\ \E result \in HeadsetResponses :
        IF ~IsList(result) THEN
            /\ Say("headsets_found")
            /\ Raise("TypeError")
            /\ UNCHANGED <<attrs, headset_id, headsets>>
        ELSE IF ~InRange(result.list, 0) THEN
            /\ Say("headsets_found")
            /\ Raise("IndexError")
            /\ UNCHANGED <<attrs, headset_id, headsets>>
        ELSE
            /\ SayAll({"headsets_found", "headset_ids"}, "headset_ids")
            /\ headsets' = result.list
            /\ headset_id' = ChosenHeadset(result.list).id
            /\ attrs' = attrs \cup {"headset", "headset_id"}
            /\ Goto("connect")
    /\ UNCHANGED <<ident, subj, rec, session_id, warning, sel, prompted>>

\* lines 179-180: the connect command for the kept headset
FindHeadsetConnect ==
    /\ pc = "connect"
    /\ Call("control_device", [command |-> "connect", headset_id |-> headset_id])
    /\ Say("connect_result")
    /\ Goto("connect_warning")
    /\ UNCHANGED <<attrs, ident, subj, rec, dev, sel, prompted>>

\* lines 181-182: again any warning ends the wait
AwaitConnectWarning ==
    /\ pc = "connect_warning"
    /\ AwaitWarning
    /\ Say("warning")
    /\ Goto("create_session")
    /\ UNCHANGED <<attrs, ident, subj, rec, headset_id, session_id, headsets, sel, remote,
                   prompted>>

SessionResponses == {[id |-> s, status |-> "opened"] : s \in SessionIds} \cup {ErrorPayload}

\* lines 184-193: the session; an error response is printed and the method
\* returns to create_record without a session_id
FindHeadsetCreateSession ==
    /\ pc = "create_session"
    /\ Call("create_session",
            [cortex_token |-> token, headset_id |-> headset_id, status |-> "open"])
    /\ \E result \in SessionResponses :
        IF IsError(result) THEN
            /\ SayAll({"code", "message"}, "message")
            /\ UNCHANGED <<attrs, session_id>>
        ELSE
            /\ session_id' = result.id
            /\ attrs' = attrs \cup {"session_id"}
            /\ UNCHANGED <<console, printed>>
    /\ warning' = 0
    /\ headsets' = <<>>
    /\ Goto("select_streams")
    /\ UNCHANGED <<ident, subj, rec, headset_id, sel, prompted>>

\* --------------------------------------------------------- select_streams
stream_dic ==
    [k \in 0..6 |->
        CASE k = 0 -> "mot" [] k = 1 -> "dev" [] k = 2 -> "eq" [] k = 3 -> "power"
          [] k = 4 -> "met" [] k = 5 -> "fac" [] k = 6 -> "sys"]

\* The entries of self.streams are Python integers, then strings.
IntVal(n) == <<"int", n>>
StrVal(t) == <<"str", t>>
Entries(list) == {list[k] : k \in 1..Len(list)}

\* What the console reads at the stream prompt.
StreamInputs == -2 .. 7

\* Variant: the loop stops at the literal -1 only.
StopOnlyAtMinusOne(index) == index # -1

\* line 211: the condition of the while loop
LoopCondition(index) == index >= 0 /\ index <= 6

\* Variant: the append is not guarded.
AlwaysNewPick(index, list) == TRUE

\* line 213: the test that guards the append
IsNewPick(index, list) == IntVal(index) \notin Entries(list)

\* line 220: the entry the translation loop writes at position k (from 0)
Translated(k) == StrVal(stream_dic[k])

\* lines 196-210
SelectStreamsStart ==
    /\ pc = "select_streams"
    /\ Say("available_streams")
    /\ streams' = <<>>
    /\ stream_index' = 0
    /\ picked' = <<>>
    /\ attrs' = attrs \cup {"streams"}
    /\ Goto("select_loop")
    /\ UNCHANGED <<ident, subj, rec, dev, i, remote, prompted>>

\* lines 211-217: one turn of the loop.  cap bounds the valid picks collected.
PickStream(cap) ==
    /\ pc = "select_loop"
    /\ LoopCondition(stream_index)
    /\ Ask("stream")
    /\ \/ \E index \in StreamInputs :
            /\ LoopCondition(index) /\ IsNewPick(index, streams) => Len(streams) < cap
            /\ stream_index' = index
            /\ IF IsNewPick(index, streams) THEN
                   streams' = Append(streams, IntVal(index)) /\ Say("added")
               ELSE
                   UNCHANGED streams /\ Say("already_entered")
            /\ picked' = IF index \in DOMAIN stream_dic /\ index \notin Entries(picked)
                         THEN Append(picked, index) ELSE picked
            /\ Goto("select_loop")
       \/ /\ Raise("ValueError")
          /\ UNCHANGED <<streams, stream_index, picked, console, printed>>
    /\ UNCHANGED <<attrs, ident, subj, rec, dev, i, remote>>

\* line 211 with the condition false: on to the translation loop
SelectLoopExit ==
    /\ pc = "select_loop"
    /\ ~LoopCondition(stream_index)
    /\ i' = 0
    /\ Goto("translate")
    /\ UNCHANGED <<attrs, ident, subj, rec, dev, streams, stream_index, picked, remote,
                   term>>

\* lines 219-220: one turn of the translation loop, or its end
TranslateStep ==
    /\ pc = "translate"
    /\ IF i >= Len(streams) THEN
           Goto("subscribe") /\ UNCHANGED <<streams, i>>
       ELSE IF i \notin DOMAIN stream_dic THEN
           Raise("KeyError") /\ UNCHANGED <<streams, i>>
       ELSE
           /\ streams' = [streams EXCEPT ![i + 1] = Translated(i)]
           /\ i' = i + 1
           /\ Goto("translate")
    /\ UNCHANGED <<attrs, ident, subj, rec, dev, stream_index, picked, remote, term>>

SubscribeResponses ==
    {[success |-> "ok", failure |-> "none"], ErrorPayload}

\* Variant: session_id exists from construction on (as None), so that
\* reading it never fails.
SubscribeUnchecked ==
    /\ pc = "subscribe"
    /\ Call("subscribe",
            [cortex_token |-> token, session_id |-> session_id, streams |-> streams])
    /\ \E result \in SubscribeResponses :
        IF ~HasKey(result, "success") THEN
            Say("streams") /\ Raise("KeyError")
        ELSE
            SayAll({"streams", "success", "failure"}, "failure") /\ Goto("record_fields")
    /\ UNCHANGED <<attrs, ident, subj, rec, dev, sel, prompted>>

\* lines 222-225: the subscribe command and its report
Subscribe ==
    /\ pc = "subscribe"
    /\ IF "session_id" \notin attrs THEN
           /\ Say("streams")
           /\ Raise("AttributeError")
           /\ UNCHANGED remote
       ELSE
           /\ Call("subscribe",
                   [cortex_token |-> token, session_id |-> session_id, streams |-> streams])
           /\ \E result \in SubscribeResponses :
               IF ~HasKey(result, "success") THEN
                   Say("streams") /\ Raise("KeyError")
               ELSE
                   SayAll({"streams", "success", "failure"}, "failure")
                       /\ Goto("record_fields")
    /\ UNCHANGED <<attrs, ident, subj, rec, dev, sel, prompted>>

\* ---------------------------------------------------------- create_record
\* Variant: lines 154-156 are live, the record is created and made current.
CreateRecordSubmits ==
    /\ pc = "record_fields"
    /\ \E title \in Texts, name \in Texts, description \in Texts :
        IF name = "" /\ "subject_name" \notin attrs THEN
            /\ prompted' = prompted \cup {"title", "record_subject_name"}
            /\ Raise("AttributeError")
            /\ UNCHANGED <<remote, current_record>>
        ELSE
            /\ prompted' = prompted \cup {"title", "record_subject_name", "description"}
            /\ Call("create_record", [session_id |-> session_id, cortex_token |-> token])
            /\ \E id \in RecordIds : current_record' = Record(id)
            /\ Goto("close")
    /\ SayAll({"enter_info", "not_required"}, "not_required")
    /\ UNCHANGED <<attrs, ident, subj, all_records, record_index, dev, sel>>

\* lines 131-150: the record fields; nothing is sent
CreateRecordFields ==
    /\ pc = "record_fields"
    /\ \E title \in Texts, name \in Texts, description \in Texts :
        IF name = "" /\ "subject_name" \notin attrs THEN
            /\ prompted' = prompted \cup {"title", "record_subject_name"}
            /\ Raise("AttributeError")
        ELSE
            /\ prompted' = prompted \cup {"title", "record_subject_name", "description"}
            /\ Goto("close")
    /\ SayAll({"enter_info", "not_required"}, "not_required")
    /\ UNCHANGED <<attrs, ident, subj, rec, dev, sel, remote>>

\* line 251
Close ==
    /\ pc = "close"
    /\ Goto("done")
    /\ UNCHANGED <<attrs, ident, subj, rec, dev, sel, remote, term>>

\* The steps the script takes by itself, given the operator's input and the
\* response of the command it has issued.
ScriptStep ==
    \/ AuthorizePrompt
    \/ AuthorizeGetUserLogin
    \/ AuthorizeRequestAccess
    \/ AuthorizeToken
    \/ DisplayUserInfo
    \/ ShowSubjectsQuery
    \/ ShowSubjectsPrompt
    \/ MainSubjectBranch
    \/ CreateSubject
    \/ SelectSubject
    \/ DisplaySubjectInfo
    \/ ShowRecordsQuery
    \/ ShowRecordsPrompt
    \/ MainRecordBranch
    \/ DisplayRecordInfo
    \/ FindHeadsetRefresh
    \/ FindHeadsetQuery
    \/ FindHeadsetConnect
    \/ FindHeadsetCreateSession
    \/ SelectStreamsStart
    \/ PickStream(MaxPicks)
    \/ SelectLoopExit
    \/ TranslateStep
    \/ Subscribe
    \/ CreateRecordFields
    \/ Close

\* The steps above and the two that need the service to send a warning.
Next ==
    \/ ScriptStep
    \/ AwaitScanWarning
    \/ AwaitConnectWarning

Spec == Init /\ [][Next]_vars

\* ------------------------------------------- select_streams on its own
\* The state in which create_record reaches select_streams after a plain run:
\* the identifier matched, a token was issued, the first of one listed subject
\* was selected, a new record was asked for, headset h1 was found, and the
\* session was either created or refused.
AtSelectStreams(withSession) ==
    /\ pc = "select_streams"
    /\ fault = "none"
    /\ attrs = {"client_id", "client_secret", "debug", "token", "cortex",
                "current_username", "user_info", "all_subjects", "subject_index",
                "current_subject", "all_records", "record_index", "current_record",
                "headset", "headset_id"}
                   \cup (IF withSession THEN {"session_id"} ELSE {})
    /\ token = "tokA"
    /\ current_username = ServerIdentity
    /\ user_info = [username |-> ServerIdentity, firstName |-> "A", lastName |-> "B",
                    licenseAgreement |-> [accepted |-> TRUE]]
    /\ all_subjects = [count |-> 1, subjects |-> <<Subject("ann")>>]
    /\ subject_index = 0
    /\ current_subject = Subject("ann")
    /\ subject_name = NoneVal
    /\ all_records = [count |-> 0, records |-> <<>>]
    /\ record_index = -1
    /\ current_record = NoneVal
    /\ headset_id = "h1"
    /\ session_id = IF withSession THEN "sess1" ELSE NoneVal
    /\ warning = 0
    /\ headsets = <<>>
    /\ streams = <<>>
    /\ stream_index = 0
    /\ i = 0
    /\ picked = <<>>
    /\ calls = <<"get_user_login", "request_access", "authorize", "get_user_information",
                 "query_subjects", "query_records", "control_device", "query_headsets",
                 "control_device", "create_session">>
    /\ lastCall = [cmd |-> "create_session",
                   args |-> [cortex_token |-> "tokA", headset_id |-> "h1",
                             status |-> "open"]]
    /\ console = IF withSession THEN "warning" ELSE "message"
    /\ printed = {"correct_id", "last_login", "user_info_header", "user_info",
                  "subjects_list", "subject_info", "records_list", "refresh_result",
                  "warning", "headsets_found", "headset_ids", "connect_result"}
                     \cup (IF withSession THEN {} ELSE {"code", "message"})
    /\ prompted = {"emotiv_id", "subject_index", "record_index"}

InitSelect == \E withSession \in BOOLEAN : AtSelectStreams(withSession)

\* Every stream tag can be picked: the loop itself admits no more valid picks.
AllStreams == Cardinality(DOMAIN stream_dic)

NextSelect ==
    \/ SelectStreamsStart
    \/ PickStream(AllStreams)
    \/ SelectLoopExit
    \/ TranslateStep
    \/ Subscribe

SpecSelect == InitSelect /\ [][NextSelect]_vars

\* InitSelect starts from states of the whole workflow: under Spec both of
\* these are violated.
NeverAtSelectStreamsWithSession == ~AtSelectStreams(TRUE)
NeverAtSelectStreamsWithoutSession == ~AtSelectStreams(FALSE)

\* --------------------------------------------- authorize_user on its own
\* authorize_user is a method of Demo: its else branch (line 35) serves a Demo
\* that already holds a token, which the main sequence never gives it.  Here
\* it runs on a Demo with or without a token, followed by the steps of the
\* main sequence up to the subject listing, which pass the token on.
HeldToken == "tokOld"

InitAuthorize == \E held \in {None, HeldToken} : Constructed(held)

NextAuthorize ==
    \/ AuthorizePrompt
    \/ AuthorizeGetUserLogin
    \/ AuthorizeRequestAccess
    \/ AuthorizeToken
    \/ DisplayUserInfo
    \/ ShowSubjectsQuery
    \/ ShowSubjectsPrompt

SpecAuthorize == InitAuthorize /\ [][NextAuthorize]_vars

\* ================================================================ claims
Issued(cmd) == cmd \in Entries(calls)
NoRepeats(list) == \A a, b \in 1..Len(list) : a # b => list[a] # list[b]
ValidIndex(v) == v \in 0..6

\* The commands that work on subjects, records and headsets.
GuardedCommands ==
    {"query_subjects", "create_subject", "query_records", "get_record_infos",
     "control_device", "query_headsets", "create_session", "subscribe"}

\* C1: a subject, record or headset command is issued only while a token is
\* held.  (The token does not change after authorize_user, so the token held
\* when the most recent command was issued is the token held now.)
C1_TokenHeldAtCommands ==
    lastCall.cmd \in GuardedCommands => token # None

\* Authenticate ended on a mismatch or on access not granted.
AuthHalted == "incorrect_id" \in printed \/ "approve_app" \in printed

AuthCommands == {"get_user_login", "request_access", "authorize", "generate_new_token"}

\* C2: once Authenticate has ended on a mismatch or on access not granted, no
\* command beyond those of Authenticate is issued, nothing beyond the
\* identifier is prompted for, and the run does not fault.
C2_HaltAfterFailedAuth ==
    AuthHalted =>
        /\ \A k \in 1..Len(calls) : calls[k] \in AuthCommands
        /\ prompted \subseteq {"emotiv_id"}
        /\ pc # "crashed"

\* C3: whatever the responses, success or error-shaped, the run raises no
\* hard fault (and so can go on to the end of main and close the connection).
C3_NoHardFault == pc # "crashed"

\* C4: the subscribe command is issued only with a session id that a
\* successful create-session response has set.
C4_SubscribeHasSession ==
    lastCall.cmd = "subscribe" =>
        /\ "session_id" \in attrs
        /\ session_id \in SessionIds
        /\ lastCall.args.session_id = session_id

\* C4 witness: the subscribe command has been issued.
C4_Subscribed ==
    /\ lastCall.cmd = "subscribe"
    /\ pc = "record_fields"
    /\ lastCall.args.session_id = "sess1"

\* create_session was answered with the error shape.
SessionRefused == Issued("create_session") /\ "session_id" \notin attrs

\* C5: after an error-shaped create-session response the error is reported
\* and record creation is aborted: no stream prompt, no subscribe command,
\* no record field prompt.
C5_RefusedSessionAborts ==
    SessionRefused =>
        /\ {"code", "message"} \subseteq printed
        /\ "stream" \notin prompted
        /\ ~Issued("subscribe")
        /\ "title" \notin prompted

\* The tags of the valid indices picked, without repeats, in pick order.
PickedTags == [k \in 1..Len(picked) |-> StrVal(stream_dic[picked[k]])]

\* C6: the list submitted in the subscribe call is exactly the tags of the
\* distinct valid indices picked, in pick order, without the sentinel.
C6_SubmittedIsPicked ==
    lastCall.cmd = "subscribe" => lastCall.args.streams = PickedTags

\* A turn of the input loop that reads a valid index already collected.
RepeatPick ==
    /\ pc = "select_loop"
    /\ ValidIndex(stream_index)
    /\ fault' = "none"
    /\ ValidIndex(stream_index')
    /\ IntVal(stream_index') \in Entries(streams)

\* C7: self.streams never holds an entry twice, nor does the submitted list;
\* a repeated pick leaves the size unchanged, prints 'already entered' and
\* leaves the run in the input loop, about to prompt again.
C7_NoDuplicates ==
    [][/\ NoRepeats(streams')
       /\ lastCall'.cmd = "subscribe" => NoRepeats(lastCall'.args.streams)
       /\ RepeatPick =>
            /\ Len(streams') = Len(streams)
            /\ console' = "already_entered"
            /\ pc' = "select_loop"]_vars

\* C7 witness: a valid index was picked a second time.
C7_RepeatedPick ==
    /\ pc = "select_loop"
    /\ console = "already_entered"
    /\ Len(streams) = 2
    /\ IntVal(stream_index) = streams[1]

\* C8: in the input loop, after a value in [0,6] (or before any value) the
\* next step prompts again; after a value outside [0,6] the next step leaves
\* the loop without prompting.
C8_LoopStopsOutsideRange ==
    [][pc = "select_loop" =>
        IF ValidIndex(stream_index)
        THEN pc' \in {"select_loop", "crashed"} /\ "stream" \in prompted'
        ELSE pc' = "translate" /\ UNCHANGED <<streams, stream_index, term>>]_vars

\* C8 witness: the loop was left on a value above 6, after two valid picks.
C8_StoppedAboveRange ==
    /\ pc = "translate"
    /\ stream_index = 7
    /\ Len(picked) = 2
    /\ Len(streams) = 3

\* The translation loop faulted.
TranslationFault == pc = "crashed" /\ fault = "KeyError" /\ i < Len(streams)

\* C9: the translation loop never faults, and when it ends every position
\* k of the collected list holds the fixed tag of k.
C9_TranslationSucceeds ==
    /\ ~TranslationFault
    /\ pc = "subscribe" =>
            \A k \in 1..Len(streams) : streams[k] = StrVal(stream_dic[k - 1])

\* The subject query listed subjects and the index read is one of the list.
ListedIndexChosen ==
    /\ Issued("query_subjects") /\ ~Issued("create_subject") /\ ~Issued("query_records")
    /\ "subject_index" \in attrs
    /\ ~IsError(all_subjects)
    /\ subject_index \in 0 .. (all_subjects.count - 1)

\* C10: for a chosen index in [0, count), select_subject does not fault, the
\* current subject is then the listed subject at that index, and no remote
\* command was issued since the subject query.
C10_SelectYieldsListed ==
    ListedIndexChosen =>
        /\ pc \in {"subject_branch", "select_subject", "display_subject_info",
                   "show_records"}
        /\ Last(calls) = "query_subjects"
        /\ pc \in {"display_subject_info", "show_records"} =>
              current_subject = all_subjects.subjects[subject_index + 1]

\* C10 witness: the second of two listed subjects was selected.
C10_SecondSelected ==
    /\ pc = "display_subject_info"
    /\ ListedIndexChosen
    /\ subject_index = 1
    /\ current_subject = all_subjects.subjects[2]

\* An index was read at the subject prompt.
SubjectIndexRead == "subject_index" \in attrs

\* C11: whatever the number of listed subjects, the choice -1 never reaches
\* select_subject and, once the branch of the main sequence is taken and
\* create_subject has run, the create command has been issued; any other
\* choice never reaches create_subject nor issues the create command.
C11_MinusOneCreates ==
    SubjectIndexRead =>
        IF subject_index = -1
        THEN /\ pc # "select_subject"
             /\ pc \notin {"subject_branch", "create_subject"} => Issued("create_subject")
        ELSE /\ pc # "create_subject"
             /\ ~Issued("create_subject")

\* C11 witness: -1 was chosen with two subjects listed and the create command
\* was issued.
C11_CreatedDespiteListing ==
    /\ SubjectIndexRead
    /\ subject_index = -1
    /\ all_subjects.count = 2
    /\ lastCall.cmd = "create_subject"

TokenCommands == {"authorize", "generate_new_token"}
TokenCalls(log) == {k \in 1..Len(log) : log[k] \in TokenCommands}

\* C12: the step taken once the identity matched and access was granted
\* issues exactly one command, generate_new_token if a token is held and
\* authorize if none is, and unless it faults the token then held is one a
\* token response carries; no other step issues a token command or changes
\* the token.
C12_IssueOrRegenerate ==
    [][IF pc = "token"
       THEN /\ Len(calls') = Len(calls) + 1
            /\ Last(calls') = (IF token = None THEN "authorize" ELSE "generate_new_token")
            /\ Cardinality(TokenCalls(calls')) = 1
            /\ pc' # "crashed" => token' \in Tokens
       ELSE /\ TokenCalls(calls') = TokenCalls(calls)
            /\ token' = token]_vars

\* C12 witness: a held token was regenerated.
C12_Regenerated ==
    /\ pc = "display_user_info"
    /\ Last(calls) = "generate_new_token"
    /\ lastCall.args.cortex_token = HeldToken
    /\ token \in Tokens

ErrorShaped(response) == {"code", "message"} \subseteq DOMAIN response

\* C13: after an error-shaped answer to the subject query (to the record
\* query) code and message are the last lines printed, the step has returned
\* to the main sequence without a KeyError, nothing was listed, no index was
\* prompted for, and the query stays the last remote command of the run.
C13_ErrorShapeShortCircuits ==
    /\ ("all_subjects" \in attrs /\ ErrorShaped(all_subjects)) =>
          /\ {"code", "message"} \subseteq printed /\ console = "message"
          /\ "subjects_list" \notin printed
          /\ "subject_index" \notin prompted
          /\ Last(calls) = "query_subjects"
          /\ pc = "subject_branch" \/ (pc = "crashed" /\ fault = "AttributeError")
    /\ ("all_records" \in attrs /\ ErrorShaped(all_records)) =>
          /\ {"code", "message"} \subseteq printed /\ console = "message"
          /\ "records_list" \notin printed
          /\ "record_index" \notin prompted
          /\ Last(calls) = "query_records"
          /\ pc = "record_branch" \/ (pc = "crashed" /\ fault = "AttributeError")

\* C13 witness: the record query was answered with the error shape and the
\* run has ended at line 246.
C13_RecordQueryRefused ==
    /\ "all_records" \in attrs
    /\ ErrorShaped(all_records)
    /\ pc = "crashed"
    /\ Last(calls) = "query_records"

Waiting == pc \in {"scan_warning", "connect_warning"}

\* C14: no wait for a warning blocks for ever: while the script waits it has
\* a step of its own, the timeout, that ends the wait when no warning comes.
C14_WaitTimesOut == Waiting => ENABLED ScriptStep

Refresh == [cmd |-> "control_device", args |-> [command |-> "refresh"]]
Connect(id) == [cmd |-> "control_device", args |-> [command |-> "connect", headset_id |-> id]]
OneMoreCall == Len(calls') = Len(calls) + 1

\* C15: find_headset proceeds one operation at a time in this order: the
\* refresh command, a wait, the headset query, the connect command for the
\* first headset of the query's result, a wait, the create-session command
\* for that same headset; each step issues exactly its own command (a wait
\* issues none) and hands over to the next only.
C15_FindHeadsetOrder ==
    [][/\ pc = "find_headset" =>
            OneMoreCall /\ lastCall' = Refresh /\ pc' = "scan_warning"
       /\ pc = "scan_warning" =>
            calls' = calls /\ pc' = "query_headsets"
       /\ pc = "query_headsets" =>
            /\ OneMoreCall /\ lastCall'.cmd = "query_headsets"
            /\ pc' \in {"connect", "crashed"}
            /\ pc' = "connect" => Len(headsets') > 0 /\ headset_id' = headsets'[1].id
       /\ pc = "connect" =>
            OneMoreCall /\ lastCall' = Connect(headsets[1].id) /\ pc' = "connect_warning"
       /\ pc = "connect_warning" =>
            calls' = calls /\ pc' = "create_session"
       /\ pc = "create_session" =>
            /\ OneMoreCall /\ lastCall'.cmd = "create_session"
            /\ lastCall'.args.headset_id = headsets[1].id
            /\ pc' = "select_streams"]_vars

\* C15 witness: find_headset has run to its end with two headsets found.
C15_SessionForFirstHeadset ==
    /\ pc = "select_streams"
    /\ Len(calls) >= 4
    /\ SubSeq(calls, Len(calls) - 3, Len(calls))
          = <<"control_device", "query_headsets", "control_device", "create_session">>
    /\ lastCall.args.headset_id = "h2"

\* The codes the comment of line 181 names as a successful connection.
ConnectionCodes == {100, 101, 102, 113}

\* C16: the create-session command is issued only after a warning with one
\* of the four connection codes; after any other code no session is created.
C16_OnlyKnownCodesProceed ==
    [][(pc = "create_session" /\ lastCall'.cmd = "create_session")
          => warning \in ConnectionCodes]_vars

IsPrefix(a, b) == Len(a) <= Len(b) /\ SubSeq(b, 1, Len(a)) = a

\* The commands issued since the record query.
SinceRecordQuery ==
    LET k == CHOOSE n \in 1..Len(calls) : calls[n] = "query_records"
    IN  SubSeq(calls, k + 1, Len(calls))

\* An index was read at the record prompt and it asks for a new record.
NewRecordAsked == "record_index" \in attrs /\ record_index = -1

CreateRecordCommands ==
    <<"control_device", "query_headsets", "control_device", "create_session", "subscribe">>

\* C17: no run issues a create-record or a session-update command; once a new
\* record is asked for no current record is ever set, and the commands issued
\* from then on are those of find_headset followed by subscribe, in order.
C17_RecordNeverCreated ==
    /\ ~Issued("create_record")
    /\ ~Issued("update_session")
    /\ NewRecordAsked =>
          /\ current_record = NoneVal
          /\ IsPrefix(SinceRecordQuery, CreateRecordCommands)

\* C17 witness: create_record has run to its end, all three fields read.
C17_FieldsCollected ==
    /\ NewRecordAsked
    /\ pc = "close"
    /\ "description" \in prompted
    /\ SinceRecordQuery = CreateRecordCommands

\* The last command issued is the create command of create_subject.
SubjectSubmitted == lastCall.cmd = "create_subject"

\* C18: the create command carries the token, only subject fields, none of
\* them empty, the name exactly as entered, and it always carries a name.
C18_CreateCarriesName ==
    SubjectSubmitted =>
        /\ lastCall.args.cortex_token = token
        /\ DOMAIN lastCall.args \subseteq {"api_call", "cortex_token"} \cup SubjectFields
        /\ \A f \in DOMAIN lastCall.args \cap SubjectFields : lastCall.args[f] # ""
        /\ HasKey(lastCall.args, "subject_name")
        /\ lastCall.args.subject_name = subject_name

\* The run was ended by an exception raised while the record fields were read.
FieldCollectionFault == pc = "crashed" /\ "title" \in prompted

\* C19: wherever the record fields are about to be read the fallback subject
\* name is defined, and reading the fields never ends the run with a fault.
C19_FieldCollectionCompletes ==
    /\ pc = "record_fields" => "subject_name" \in attrs
    /\ ~FieldCollectionFault

\* An index that neither asks for a new entry nor names a listed one.
OutOfRange(listed, index) == index # -1 /\ index \notin 0..(Len(listed) - 1)

\* C20: after a subject index outside the listing (and other than -1) no
\* listed subject is current and no record query is issued; after such a
\* record index no record-info fetch is issued.
C20_OutOfRangeSelectsNothing ==
    /\ (SubjectIndexRead /\ OutOfRange(all_subjects.subjects, subject_index)) =>
          /\ current_subject = NoneVal
          /\ ~Issued("query_records")
    /\ ("record_index" \in attrs /\ OutOfRange(all_records.records, record_index)) =>
          ~Issued("get_record_infos")
====
